---- MODULE Spec2Model ----
(***************************************************************************)
(* Ultrahuman integration: the extraction engine of parser.py              *)
(* (UltrahumanDataParser over the METRICS registry) and the older          *)
(* extraction path of sensor.py (UltrahumanSensor.native_value over        *)
(* SENSORS), both reading one payload published per poll.                  *)
(*                                                                         *)
(* A Python value is a record [k, n, s, items]: its kind, and its number,   *)
(* its text or its items according to the kind.  An uncaught exception is  *)
(* the value Raise(name), which every operator propagates the way the call *)
(* stack would.  A dict is a sequence of entries (key, value) in insertion *)
(* order (Python dicts iterate in insertion order).  Time is counted in    *)
(* abstract units since the epoch; an ISO-8601 rendering holds its         *)
(* wall-clock reading and its UTC offset, or the wall-clock reading alone  *)
(* when the datetime is naive.                                             *)
(***************************************************************************)
EXTENDS Integers, Sequences, FiniteSets, TLC

VARIABLES
    raw,          \* coordinator.data / UltrahumanDataParser._raw: the payload
    sysOffset,    \* UTC offset of the host's local zone (used by naive datetimes)
    pc,           \* "published" | "constructed" | "failed" (the constructor raised)
    self_tz,      \* UltrahumanDataParser._tz
    self_day_key, \* UltrahumanDataParser._day_key
    self_metrics, \* UltrahumanDataParser._metrics
    initErr,      \* what the constructor raised, None if nothing
    budget,       \* get_value calls the consumer still makes on this instance
    firstKey,     \* key of the first get_value call on this instance ("" before it)
    firstResult,  \* and its outcome
    lastKey,      \* key of the latest get_value call ("" before the first)
    lastResult,   \* and its outcome
    nvSensor,     \* index into SENSORS of the sensor read last (0: none yet)
    nvResult      \* outcome of that native_value read

vars == <<raw, sysOffset, pc, self_tz, self_day_key, self_metrics, initErr,
          budget, firstKey, firstResult, lastKey, lastResult, nvSensor, nvResult>>

parserVars == <<pc, self_tz, self_day_key, self_metrics, initErr,
                budget, firstKey, firstResult, lastKey, lastResult>>

-----------------------------------------------------------------------------
(* Python values *)

Val(kind, number, text, seq) == [k |-> kind, n |-> number, s |-> text, items |-> seq]

None == Val("none", 0, "", <<>>)

Num(n) == Val("int", n, "", <<>>)

Str(s) == Val("str", 0, s, <<>>)

List(seq) == Val("list", 0, "", seq)

\* one entry of a dict: its key and its value
Entry(key, value) == Val("entry", 0, key, <<value>>)

Dict(entries) == Val("dict", 0, "", entries)

Raise(exc) == Val("raise", 0, exc, <<>>)

\* datetime.isoformat() of an aware datetime: wall clock and offset
IsoAware(wall, off) == Val("isostr", wall, "", <<Num(off)>>)

\* datetime.isoformat() of a naive datetime: wall clock only, no offset
IsoNaive(wall) == Val("isostr", wall, "", <<>>)

IsRaise(x) == x.k = "raise"

EmptyDict == Dict(<<>>)

EmptyList == List(<<>>)

\* bool(x)
Truthy(x) ==
    CASE x.k = "none" -> FALSE
      [] x.k = "int" -> x.n # 0
      [] x.k = "str" -> x.s # ""
      [] x.k = "list" -> Len(x.items) > 0
      [] x.k = "dict" -> Len(x.items) > 0
      [] OTHER -> TRUE

HasKey(entries, key) == \E i \in 1..Len(entries) : entries[i].s = key

Lookup(entries, key) ==
    entries[CHOOSE i \in 1..Len(entries) : entries[i].s = key].items[1]

\* x.get(key, default): only a dict has .get
PyGet(x, key, default) ==
    IF IsRaise(x) THEN x
    ELSE IF x.k = "dict"
         THEN IF HasKey(x.items, key) THEN Lookup(x.items, key) ELSE default
         ELSE Raise("AttributeError")

\* next(iter(x), None)
FirstOfIter(x) ==
    IF IsRaise(x) THEN x
    ELSE CASE x.k = "dict" -> IF Len(x.items) = 0 THEN None ELSE Str(x.items[1].s)
           [] x.k = "list" -> IF Len(x.items) = 0 THEN None ELSE x.items[1]
           [] x.k = "str" -> IF x.s = "" THEN None ELSE Str("char")
           [] OTHER -> Raise("TypeError")

\* the sequence a for-loop over x visits; Raise when x is not iterable
IterItems(x) ==
    CASE x.k = "list" -> x.items
      [] x.k = "dict" -> [i \in 1..Len(x.items) |-> Str(x.items[i].s)]
      [] x.k = "str" -> IF x.s = "" THEN <<>> ELSE <<Str("char")>>
      [] OTHER -> <<>>

Iterable(x) == x.k \in {"list", "dict", "str"}

-----------------------------------------------------------------------------
(* zoneinfo *)

ValidZones == {"Europe/London", "Asia/Kolkata"}

\* offset in effect in `zone` at instant ts.  London: instant 1 falls in
\* winter time, the later instants in summer time, and at the epoch itself
\* (instant 0) the zone stood one unit ahead of UTC.  Kolkata never changes.
UtcOffset(zone, ts) ==
    IF zone = "Europe/London" THEN (IF ts = 1 THEN 0 ELSE 1) ELSE 5

\* ZoneInfo(key): a tzinfo, or ZoneInfoNotFoundError for a key with no zone
ZoneInfo(key) ==
    IF key.k = "str" /\ key.s \in ValidZones THEN key
    ELSE IF key.k = "str" THEN Raise("ZoneInfoNotFoundError")
    ELSE Raise("TypeError")

\* datetime.fromtimestamp(ts, tz=tzinfo).isoformat(); tzinfo None gives the
\* naive local time of the host
FromTimestampIso(ts, tzinfo, sys) ==
    IF IsRaise(tzinfo) THEN tzinfo
    ELSE IF ts.k # "int" THEN Raise("TypeError")
    ELSE IF tzinfo = None THEN IsoNaive(ts.n + sys)
    ELSE IsoAware(ts.n + UtcOffset(tzinfo.s, ts.n), UtcOffset(tzinfo.s, ts.n))

-----------------------------------------------------------------------------
(* parser.py: the registry *)

METRICS ==
    << "hr_last", "night_rhr", "hrv_avg", "sleep_rhr", "spo2_avg", "vo2_max",
       "sleep_score", "total_sleep", "sleep_start", "sleep_end", "time_in_bed",
       "sleep_efficiency",
       "recovery_index", "movement_index", "active_minutes", "steps", "calories",
       "skin_temp", "temp_deviation", "stress_score",
       "readiness_score", "body_battery" >>

RegistryKeys == {METRICS[i] : i \in 1..Len(METRICS)}

-----------------------------------------------------------------------------
(* parser.py: UltrahumanDataParser *)

\* __init__: metrics_by_day = raw.get("metrics", {})
InitMetricsByDay(r) == PyGet(r, "metrics", EmptyDict)

\* __init__: self._tz = raw.get("latest_time_zone")
InitTz(r) == PyGet(r, "latest_time_zone", None)

\* a constructor binding the latest day (max(metrics_by_day)) instead of the first
InitDayKey_Latest(r) ==
    LET m == InitMetricsByDay(r) IN
    IF IsRaise(m) THEN m
    ELSE IF m.k # "dict" THEN Raise("TypeError")
    ELSE IF Len(m.items) = 0 THEN None
    ELSE IF \E i \in 1..Len(m.items) : m.items[i].s = "2024-01-02" THEN Str("2024-01-02")
    ELSE Str(m.items[1].s)

\* __init__: self._day_key = next(iter(metrics_by_day), None)
InitDayKey(r) == FirstOfIter(InitMetricsByDay(r))

\* __init__: self._metrics = metrics_by_day.get(self._day_key, []) if self._day_key else []
InitMetrics(r) ==
    LET dk == InitDayKey(r) IN
    IF IsRaise(dk) THEN dk
    ELSE IF Truthy(dk) THEN PyGet(InitMetricsByDay(r), dk.s, EmptyList)
    ELSE EmptyList

\* what __init__ raises, None if it returns
InitOutcome(r) ==
    IF IsRaise(InitTz(r)) THEN InitTz(r)
    ELSE IF IsRaise(InitMetricsByDay(r)) THEN InitMetricsByDay(r)
    ELSE IF IsRaise(InitDayKey(r)) THEN InitDayKey(r)
    ELSE IF IsRaise(InitMetrics(r)) THEN InitMetrics(r)
    ELSE None

\* the generator of _get_metric over the items of self._metrics from position i:
\* the first m with m.get("type") == metric_type, None when exhausted
RECURSIVE ScanFrom(_, _, _)
ScanFrom(items, i, metric_type) ==
    IF i > Len(items) THEN None
    ELSE LET t == PyGet(items[i], "type", None) IN
         IF IsRaise(t) THEN t
         ELSE IF t = Str(metric_type) THEN items[i]
         ELSE ScanFrom(items, i + 1, metric_type)

\* _get_metric
_get_metric(metrics, metric_type) ==
    IF IsRaise(metrics) THEN metrics
    ELSE IF ~Iterable(metrics) THEN Raise("TypeError")
    ELSE ScanFrom(IterItems(metrics), 1, metric_type)

\* _obj
_obj(metrics, metric_type) ==
    LET metric == _get_metric(metrics, metric_type) IN
    IF IsRaise(metric) THEN metric
    ELSE IF Truthy(metric) THEN PyGet(metric, "object", EmptyDict)
    ELSE EmptyDict

\* _iso testing `ts is None` where the source tests `not ts`
_iso_NoneCheck(tz, ts, sys) ==
    IF IsRaise(ts) THEN ts
    ELSE IF ts = None THEN None
    ELSE FromTimestampIso(ts, IF Truthy(tz) THEN ZoneInfo(tz) ELSE None, sys)

\* _iso falling back to UTC where the source falls back to a naive datetime
_iso_UtcDefault(tz, ts, sys) ==
    IF IsRaise(ts) THEN ts
    ELSE IF ~Truthy(ts) THEN None
    ELSE IF Truthy(tz) THEN FromTimestampIso(ts, ZoneInfo(tz), sys)
    ELSE IF ts.k # "int" THEN Raise("TypeError")
    ELSE IsoAware(ts.n, 0)

\* _iso
_iso(tz, ts, sys) ==
    IF IsRaise(ts) THEN ts
    ELSE IF ~Truthy(ts) THEN None
    ELSE FromTimestampIso(ts, IF Truthy(tz) THEN ZoneInfo(tz) ELSE None, sys)

\* a chain that lost its last branch while the registry kept the key
get_value_readiness_Drift(metrics, key) ==
    IF key = "readiness_score" THEN PyGet(_obj(metrics, "readiness"), "score", None)
    ELSE None

\* a chain that ends in a KeyError instead of None
get_value_readiness_KeyError(metrics, key) ==
    IF key = "readiness_score" THEN PyGet(_obj(metrics, "readiness"), "score", None)
    ELSE IF key = "body_battery" THEN PyGet(_obj(metrics, "body_battery"), "value", None)
    ELSE Raise("KeyError")

\* get_value, the Readiness section and the final return None
get_value_readiness(metrics, key) ==
    IF key = "readiness_score" THEN PyGet(_obj(metrics, "readiness"), "score", None)
    ELSE IF key = "body_battery" THEN PyGet(_obj(metrics, "body_battery"), "value", None)
    ELSE None

\* get_value: the conditional chain, in source order
get_value(metrics, tz, sys, key) ==
    IF key = "hr_last" THEN PyGet(_obj(metrics, "hr"), "last_reading", None)
    ELSE IF key = "night_rhr" THEN PyGet(_obj(metrics, "night_rhr"), "avg", None)
    ELSE IF key = "hrv_avg" THEN PyGet(_obj(metrics, "avg_sleep_hrv"), "value", None)
    ELSE IF key = "sleep_rhr" THEN PyGet(_obj(metrics, "sleep_rhr"), "value", None)
    ELSE IF key = "spo2_avg" THEN PyGet(_obj(metrics, "spo2"), "avg", None)
    ELSE IF key = "vo2_max" THEN PyGet(_obj(metrics, "vo2_max"), "value", None)
    ELSE LET sleep == _obj(metrics, "sleep") IN
    IF IsRaise(sleep) THEN sleep
    ELSE IF key = "sleep_score"
        THEN PyGet(PyGet(sleep, "sleep_score", EmptyDict), "score", None)
    ELSE IF key = "total_sleep"
        THEN PyGet(PyGet(sleep, "total_sleep", EmptyDict), "minutes", None)
    ELSE IF key = "sleep_start" THEN _iso(tz, PyGet(sleep, "bedtime_start", None), sys)
    ELSE IF key = "sleep_end" THEN _iso(tz, PyGet(sleep, "bedtime_end", None), sys)
    ELSE IF key = "time_in_bed"
        THEN PyGet(PyGet(sleep, "time_in_bed", EmptyDict), "minutes", None)
    ELSE IF key = "sleep_efficiency" THEN PyGet(sleep, "sleep_efficiency", None)
    ELSE IF key = "recovery_index" THEN PyGet(_obj(metrics, "recovery_index"), "value", None)
    ELSE IF key = "movement_index" THEN PyGet(_obj(metrics, "movement_index"), "value", None)
    ELSE IF key = "active_minutes" THEN PyGet(_obj(metrics, "active_minutes"), "value", None)
    ELSE IF key = "steps" THEN PyGet(_obj(metrics, "steps"), "total", None)
    ELSE IF key = "calories" THEN PyGet(_obj(metrics, "calories"), "total", None)
    ELSE IF key = "skin_temp" THEN PyGet(_obj(metrics, "skin_temperature"), "avg", None)
    ELSE IF key = "temp_deviation"
        THEN PyGet(_obj(metrics, "skin_temperature"), "deviation", None)
    ELSE IF key = "stress_score" THEN PyGet(_obj(metrics, "stress"), "score", None)
    ELSE get_value_readiness(metrics, key)

-----------------------------------------------------------------------------
(* sensor.py: SENSORS and UltrahumanSensor.native_value *)

\* (metric_type, value_key, is_timestamp); the display name plays no part
SENSORS ==
    << <<"night_rhr", "avg", FALSE>>,
       <<"avg_sleep_hrv", "value", FALSE>>,
       <<"sleep_rhr", "value", FALSE>>,
       <<"recovery_index", "value", FALSE>>,
       <<"movement_index", "value", FALSE>>,
       <<"active_minutes", "value", FALSE>>,
       <<"vo2_max", "value", FALSE>>,
       <<"sleep", "bedtime_start", TRUE>>,
       <<"sleep", "bedtime_end", TRUE>> >>

\* the try/except Exception around the timestamp conversion
NvTimestamp(value, tz, sys) ==
    LET r == FromTimestampIso(value, IF Truthy(tz) THEN ZoneInfo(tz) ELSE None, sys) IN
    IF IsRaise(tz) THEN tz
    ELSE IF IsRaise(r) THEN None
    ELSE r

\* native_value of the sensor (metric_type, value_key, is_timestamp) on data
native_value(data, sys, sensor) ==
    IF ~Truthy(data) THEN None
    ELSE LET metrics_by_day == PyGet(data, "metrics", EmptyDict) IN
    IF IsRaise(metrics_by_day) THEN metrics_by_day
    ELSE IF ~Truthy(metrics_by_day) THEN None
    ELSE LET day_key == FirstOfIter(metrics_by_day) IN
    IF IsRaise(day_key) THEN day_key
    ELSE IF ~Truthy(day_key) THEN None
    ELSE LET metrics == PyGet(metrics_by_day, day_key.s, EmptyList)
             metric == _get_metric(metrics, sensor[1]) IN
    IF IsRaise(metric) THEN metric
    ELSE IF ~Truthy(metric) THEN None
    ELSE LET value == PyGet(PyGet(metric, "object", EmptyDict), sensor[2], None) IN
    IF IsRaise(value) THEN value
    ELSE IF value = None THEN None
    ELSE IF sensor[3] THEN NvTimestamp(value, PyGet(data, "latest_time_zone", None), sys)
    ELSE value

-----------------------------------------------------------------------------
(* The payloads a poll can publish (sensor.py _fetch_data returns the "data"   *)
(* member of whatever JSON the partner API answered).                          *)

MaxTs == 2      \* bedtime instants range over 1..MaxTs

MaxOthers == 1  \* records accompanying the record under study in a day's list

MaxCalls == 2   \* get_value calls on one parser instance in the repeated-call runs

\* the projection the documentation gives for a key: record type, field path
DocType(key) ==
    CASE key = "hr_last" -> "hr"
      [] key = "hrv_avg" -> "avg_sleep_hrv"
      [] key = "spo2_avg" -> "spo2"
      [] key \in {"sleep_score", "total_sleep", "sleep_start", "sleep_end",
                  "time_in_bed", "sleep_efficiency"} -> "sleep"
      [] key \in {"skin_temp", "temp_deviation"} -> "skin_temperature"
      [] key = "stress_score" -> "stress"
      [] key = "readiness_score" -> "readiness"
      [] OTHER -> key

DocPath(key) ==
    CASE key = "hr_last" -> <<"last_reading">>
      [] key \in {"night_rhr", "spo2_avg", "skin_temp"} -> <<"avg">>
      [] key = "sleep_score" -> <<"sleep_score", "score">>
      [] key = "total_sleep" -> <<"total_sleep", "minutes">>
      [] key = "time_in_bed" -> <<"time_in_bed", "minutes">>
      [] key = "sleep_start" -> <<"bedtime_start">>
      [] key = "sleep_end" -> <<"bedtime_end">>
      [] key = "sleep_efficiency" -> <<"sleep_efficiency">>
      [] key \in {"steps", "calories"} -> <<"total">>
      [] key = "temp_deviation" -> <<"deviation">>
      [] key \in {"stress_score", "readiness_score"} -> <<"score">>
      [] OTHER -> <<"value">>

DocIsTimestamp(key) == key \in {"sleep_start", "sleep_end"}

RecordTypes == {DocType(key) : key \in RegistryKeys}

\* an optional JSON member: <<>> when missing, <<x>> when present with value x
TsOpts == {<<>>, <<None>>, <<Num(0)>>} \cup {<<Num(n)>> : n \in 1..MaxTs}

FieldVariants == {"value", "null", "missing", "outer_null", "outer_empty"}

\* the member of `object` holding METRICS[i], in the given variant; a populated
\* field holds base + i, so that no two fields of a payload hold the same reading
FieldPair(i, variant, bs, be, base) ==
    LET key == METRICS[i]
        path == DocPath(key) IN
    IF key = "sleep_start" THEN [j \in 1..Len(bs) |-> Entry(path[1], bs[j])]
    ELSE IF key = "sleep_end" THEN [j \in 1..Len(be) |-> Entry(path[1], be[j])]
    ELSE IF variant = "missing" THEN <<>>
    ELSE IF Len(path) = 1
         THEN IF variant = "value" THEN <<Entry(path[1], Num(base + i))>>
              ELSE <<Entry(path[1], None)>>
    ELSE IF variant = "value"
         THEN <<Entry(path[1], Dict(<<Entry(path[2], Num(base + i))>>))>>
    ELSE IF variant = "null" THEN <<Entry(path[1], Dict(<<Entry(path[2], None)>>))>>
    ELSE IF variant = "outer_null" THEN <<Entry(path[1], None)>>
    ELSE <<Entry(path[1], EmptyDict)>>

\* the members of the `object` of a record of type t, in registry order
RECURSIVE FieldsFrom(_, _, _, _, _, _)
FieldsFrom(i, t, variant, bs, be, base) ==
    IF i > Len(METRICS) THEN <<>>
    ELSE (IF DocType(METRICS[i]) = t THEN FieldPair(i, variant, bs, be, base) ELSE <<>>)
         \o FieldsFrom(i + 1, t, variant, bs, be, base)

\* a record {"type": t, "object": ...}; objOpt is the optional `object` member
Rec(t, objOpt) ==
    Dict(<<Entry("type", Str(t))>> \o [j \in 1..Len(objOpt) |-> Entry("object", objOpt[j])])

\* a record of type t with every documented field populated
PopRec(t, bs, be, base) == Rec(t, <<Dict(FieldsFrom(1, t, "value", bs, be, base))>>)

\* the records of type t a day's list is studied with
FocusRecs(t) ==
    {Rec(t, <<>>), Rec(t, <<None>>)}
    \cup {Rec(t, <<Dict(FieldsFrom(1, t, v, <<Num(1)>>, <<Num(MaxTs)>>, 0))>>) :
              v \in FieldVariants}
    \cup (IF t = "sleep"
          THEN {PopRec(t, bs, be, 0) : bs \in TsOpts, be \in TsOpts}
          ELSE {})

OtherType(t) == IF t = "sleep" THEN "steps" ELSE "sleep"

\* what else a day's list may hold beside the record under study: a null entry,
\* an empty record, a record of another type, a later duplicate of the same type
Others(t) ==
    {None, EmptyDict, PopRec(OtherType(t), <<Num(1)>>, <<Num(1)>>, 50),
     PopRec(t, <<Num(MaxTs)>>, <<Num(1)>>, 70)}

SeqsUpTo(S, n) == UNION {[1..m -> S] : m \in 0..n}

DayLists(t) ==
    {List(b \o <<PopRec(t, <<Num(1)>>, <<Num(MaxTs)>>, 0)>> \o a) :
        <<b, a>> \in {ba \in SeqsUpTo(Others(t), MaxOthers) \X SeqsUpTo(Others(t), MaxOthers) :
                         Len(ba[1]) + Len(ba[2]) <= MaxOthers}}
    \cup {List(<<f>>) : f \in FocusRecs(t)}
    \cup {List(o) : o \in SeqsUpTo(Others(t), MaxOthers)}

Day1 == "2024-01-01"

Day2 == "2024-01-02"

\* the optional latest_time_zone member
TzOpts ==
    {<<>>, <<None>>, <<Str("")>>, <<Str("Europe/London")>>, <<Str("Asia/Kolkata")>>,
     <<Str("Mars/Olympus")>>}

Payload(tzOpt, metricsOpt) ==
    Dict([j \in 1..Len(tzOpt) |-> Entry("latest_time_zone", tzOpt[j])]
         \o [j \in 1..Len(metricsOpt) |-> Entry("metrics", metricsOpt[j])])

OneDay(list) == Dict(<<Entry(Day1, list)>>)

\* the list another day of the same payload holds: same record types, other readings
Decoy(t) == List(<<PopRec(t, <<Num(MaxTs)>>, <<Num(1)>>, 30)>>)

TwoDays(t) ==
    LET mine == List(<<PopRec(t, <<Num(1)>>, <<Num(MaxTs)>>, 0)>>) IN
    {Dict(<<Entry(Day1, mine), Entry(Day2, Decoy(t))>>),
     Dict(<<Entry(Day2, mine), Entry(Day1, Decoy(t))>>)}

\* payloads of one day
DayPayloads ==
    {Payload(tz, <<OneDay(l)>>) : tz \in TzOpts, l \in DayLists("sleep")}
    \cup UNION {{Payload(<<>>, <<OneDay(l)>>) : l \in DayLists(t)} :
                   t \in RecordTypes \ {"sleep"}}

\* payloads without a usable day, or with several days
ShapePayloads ==
    {Payload(<<>>, <<>>), Payload(<<Str("Europe/London")>>, <<>>),
     Payload(<<>>, <<None>>), Payload(<<>>, <<EmptyDict>>),
     Payload(<<>>, <<OneDay(None)>>)}
    \cup UNION {{Payload(tz, <<m>>) : m \in TwoDays(t),
                                      tz \in {<<>>, <<Str("Europe/London")>>}} :
                   t \in RecordTypes}

Payloads == DayPayloads \cup ShapePayloads

SysOffsets == {0, 3}

UnknownKeys == {"bogus", "sleep"}

Keys == RegistryKeys \cup UnknownKeys

NoKey == ""

-----------------------------------------------------------------------------
(* State machine *)

InitWith(payloads, calls) ==
    /\ raw \in payloads
    /\ sysOffset \in SysOffsets
    /\ pc = "published"
    /\ self_tz = None
    /\ self_day_key = None
    /\ self_metrics = None
    /\ initErr = None
    /\ budget = calls
    /\ firstKey = NoKey
    /\ firstResult = None
    /\ lastKey = NoKey
    /\ lastResult = None
    /\ nvSensor = 0
    /\ nvResult = None

\* one poll: the consumer builds a parser and asks it for one value
Init == InitWith(Payloads, 1)

\* the consumer asks the same parser several times
InitRepeat == InitWith(ShapePayloads, MaxCalls)

\* UltrahumanDataParser(raw)
Construct ==
    /\ pc = "published"
    /\ initErr' = InitOutcome(raw)
    /\ IF IsRaise(InitOutcome(raw))
       THEN /\ pc' = "failed"
            /\ UNCHANGED <<self_tz, self_day_key, self_metrics>>
       ELSE /\ pc' = "constructed"
            /\ self_tz' = InitTz(raw)
            /\ self_day_key' = InitDayKey(raw)
            /\ self_metrics' = InitMetrics(raw)
    /\ UNCHANGED <<raw, sysOffset, budget, firstKey, firstResult, lastKey, lastResult,
                   nvSensor, nvResult>>

\* a get_value whose record scan consumes self._metrics (a shared iterator)
GetValue_Exhausting(key) ==
    /\ pc = "constructed"
    /\ budget > 0
    /\ budget' = budget - 1
    /\ lastKey' = key
    /\ lastResult' = get_value(self_metrics, self_tz, sysOffset, key)
    /\ firstKey' = IF firstKey = NoKey THEN key ELSE firstKey
    /\ firstResult' = IF firstKey = NoKey THEN lastResult' ELSE firstResult
    /\ self_metrics' = EmptyList
    /\ UNCHANGED <<raw, sysOffset, pc, self_tz, self_day_key, initErr,
                   nvSensor, nvResult>>

\* parser.get_value(key)
GetValue(key) ==
    /\ pc = "constructed"
    /\ budget > 0
    /\ budget' = budget - 1
    /\ lastKey' = key
    /\ lastResult' = get_value(self_metrics, self_tz, sysOffset, key)
    /\ firstKey' = IF firstKey = NoKey THEN key ELSE firstKey
    /\ firstResult' = IF firstKey = NoKey THEN lastResult' ELSE firstResult
    /\ UNCHANGED <<raw, sysOffset, pc, self_tz, self_day_key, self_metrics, initErr,
                   nvSensor, nvResult>>

\* the platform reads sensor i's native_value
NativeValue(i) ==
    /\ nvSensor' = i
    /\ nvResult' = native_value(raw, sysOffset, SENSORS[i])
    /\ UNCHANGED <<raw, sysOffset>>
    /\ UNCHANGED parserVars

Next == Construct \/ \E key \in Keys : GetValue(key)

NextSensor == \E i \in 1..Len(SENSORS) : NativeValue(i)

Spec == Init /\ [][Next]_vars

SpecRepeat == InitRepeat /\ [][Next]_vars

SpecSensor == Init /\ [][NextSensor]_vars

-----------------------------------------------------------------------------
(* Reading a payload directly, for stating the properties *)

\* the optional member `key` of x: <<>> when x is no mapping or lacks it
Member(x, key) ==
    IF x.k = "dict" /\ HasKey(x.items, key) THEN <<Lookup(x.items, key)>> ELSE <<>>

\* the days of the metrics mapping, as entries (day-key, stored value)
Days(r) == Member(r, "metrics")[1].items

\* the metrics member is a mapping holding at least one day
HasDay(r) == Member(r, "metrics") # <<>> /\ Member(r, "metrics")[1].k = "dict"
             /\ Len(Days(r)) > 0

\* what is stored under the first day-key
FirstDayValue(r) == Days(r)[1].items[1]

\* the payload has the documented shape: metrics, if there, maps days to lists
\* of records, and every record is a mapping
ShapeOK(r) ==
    LET m == Member(r, "metrics") IN
    m # <<>> => /\ m[1].k = "dict"
                /\ \A d \in 1..Len(Days(r)) :
                      /\ Days(r)[d].items[1].k = "list"
                      /\ \A i \in 1..Len(Days(r)[d].items[1].items) :
                            Days(r)[d].items[1].items[i].k = "dict"

TypeIs(rec, t) == Member(rec, "type") = <<Str(t)>>

HasRec(items, t) == \E i \in 1..Len(items) : TypeIs(items[i], t)

FirstRec(items, t) ==
    items[CHOOSE i \in 1..Len(items) :
            TypeIs(items[i], t) /\ \A j \in 1..(i - 1) : ~TypeIs(items[j], t)]

\* the first day's list is a list holding a record of type t
DayHasRec(r, t) ==
    HasDay(r) /\ FirstDayValue(r).k = "list" /\ HasRec(FirstDayValue(r).items, t)

\* the optional member `field` of the object of the first day's first record of type t
ObjMember(r, t, field) ==
    LET o == Member(FirstRec(FirstDayValue(r).items, t), "object") IN
    IF o = <<>> THEN <<>> ELSE Member(o[1], field)

\* the object of that record is a mapping, or the record has none
ObjIsMappingOrMissing(r, t) ==
    LET o == Member(FirstRec(FirstDayValue(r).items, t), "object") IN
    o = <<>> \/ o[1].k = "dict"

\* the optional value at the end of a documented field path
PathMember(r, key) ==
    LET path == DocPath(key)
        outer == ObjMember(r, DocType(key), path[1]) IN
    IF Len(path) = 1 \/ outer = <<>> THEN outer ELSE Member(outer[1], path[2])

TzMember(r) == Member(r, "latest_time_zone")

TzAbsent(r) == TzMember(r) \in {<<>>, <<None>>, <<Str("")>>}

TzValid(r) == \E z \in ValidZones : TzMember(r) = <<Str(z)>>

TzMalformed(r) == ~TzAbsent(r) /\ ~TzValid(r)

BedtimeField(key) == IF key = "sleep_start" THEN "bedtime_start" ELSE "bedtime_end"

\* the sleep record holds a non-zero epoch instant in the field behind `key`
BedtimeNonZero(r, key) ==
    /\ DayHasRec(r, "sleep")
    /\ \E n \in 1..MaxTs : ObjMember(r, "sleep", BedtimeField(key)) = <<Num(n)>>

BedtimeOf(r, key) == ObjMember(r, "sleep", BedtimeField(key))[1].n

\* the outcome of UltrahumanDataParser(r).get_value(key), a raise included
ParserOutcome(r, sys, key) ==
    IF IsRaise(InitOutcome(r)) THEN InitOutcome(r)
    ELSE get_value(InitMetrics(r), InitTz(r), sys, key)

\* the registry key each entry of SENSORS corresponds to
SensorKey ==
    << "night_rhr", "hrv_avg", "sleep_rhr", "recovery_index", "movement_index",
       "active_minutes", "vo2_max", "sleep_start", "sleep_end" >>

-----------------------------------------------------------------------------
(* Properties *)

\* C1: with the metrics mapping, the day's record list, a record's object, an
\* outer field or an inner field each possibly missing or null (every record
\* itself being a mapping), constructing the parser and calling get_value on
\* a registered key never raises.
C1_NeverRaises ==
    (\/ ~HasDay(raw)
     \/ FirstDayValue(raw).k # "list"
     \/ \A i \in 1..Len(FirstDayValue(raw).items) : FirstDayValue(raw).items[i].k = "dict")
    => /\ pc # "failed"
       /\ lastKey \in RegistryKeys => ~IsRaise(lastResult)

\* C2: with a malformed or unknown latest_time_zone and a non-zero bedtime,
\* get_value("sleep_start") and get_value("sleep_end") return None.
C2_MalformedZoneAbsent ==
    (/\ lastKey \in {"sleep_start", "sleep_end"}
     /\ ShapeOK(raw)
     /\ TzMalformed(raw)
     /\ BedtimeNonZero(raw, lastKey))
    => lastResult = None

\* C3: when the sleep record's bedtime_start (resp. bedtime_end) is 0, null or
\* missing, get_value("sleep_start") (resp. "sleep_end") returns None, whatever
\* the time zone member holds: a zero instant is never rendered.
C3_ZeroTimestampAbsent ==
    (/\ lastKey \in {"sleep_start", "sleep_end"}
     /\ ShapeOK(raw)
     /\ DayHasRec(raw, "sleep")
     /\ ObjIsMappingOrMissing(raw, "sleep")
     /\ ObjMember(raw, "sleep", BedtimeField(lastKey)) \in {<<>>, <<None>>, <<Num(0)>>})
    => lastResult = None

\* C3 witness: a zero bedtime_start under a malformed zone name was asked for
\* and came back None.
C3_Witness ==
    /\ lastKey = "sleep_start"
    /\ ShapeOK(raw)
    /\ DayHasRec(raw, "sleep")
    /\ ObjMember(raw, "sleep", "bedtime_start") = <<Num(0)>>
    /\ TzMalformed(raw)
    /\ lastResult = None

\* C4 as stated: for a non-zero bedtime the returned string is an ISO-8601
\* rendering carrying a UTC offset, with latest_time_zone present (a valid
\* zone) and with it absent.
C4_AlwaysOffset ==
    (/\ lastKey \in {"sleep_start", "sleep_end"}
     /\ ShapeOK(raw)
     /\ TzValid(raw) \/ TzAbsent(raw)
     /\ BedtimeNonZero(raw, lastKey))
    => lastResult.k = "isostr" /\ Len(lastResult.items) = 1

\* C4 amended: for a non-zero bedtime the returned string is the wall-clock
\* reading in the named zone together with that zone's offset at the instant
\* when latest_time_zone names a valid zone, and the host's local wall-clock
\* reading with no offset when latest_time_zone is missing, null or empty.
C4_OffsetOnlyWithZone ==
    (/\ lastKey \in {"sleep_start", "sleep_end"}
     /\ ShapeOK(raw)
     /\ TzValid(raw) \/ TzAbsent(raw)
     /\ BedtimeNonZero(raw, lastKey))
    => LET ts == BedtimeOf(raw, lastKey) IN
       /\ lastResult.k = "isostr"
       /\ TzValid(raw) =>
             LET off == UtcOffset(TzMember(raw)[1].s, ts) IN
             lastResult.n = ts + off /\ lastResult.items = <<Num(off)>>
       /\ TzAbsent(raw) => lastResult.n = ts + sysOffset /\ lastResult.items = <<>>

\* C4 witness: a bedtime_end in London summer time came back with offset 1.
C4_Witness ==
    /\ lastKey = "sleep_end"
    /\ ShapeOK(raw)
    /\ TzMember(raw) = <<Str("Europe/London")>>
    /\ BedtimeNonZero(raw, "sleep_end")
    /\ BedtimeOf(raw, "sleep_end") = MaxTs
    /\ lastResult = IsoAware(MaxTs + 1, 1)

\* the day's list cut down to the first record of the type behind `key`
OnlyRecordOf(r, key) ==
    IF HasRec(FirstDayValue(r).items, DocType(key))
    THEN List(<<FirstRec(FirstDayValue(r).items, DocType(key))>>)
    ELSE EmptyList

\* C5: get_value(k) is decided by the first record of k's type alone (and the
\* time zone): whatever else the day's list holds, removed, emptied, nulled or
\* malformed, the outcome is the one that record alone gives.
C5_OtherRecordsIrrelevant ==
    (/\ lastKey \in RegistryKeys
     /\ HasDay(raw)
     /\ FirstDayValue(raw).k = "list")
    => lastResult = get_value(OnlyRecordOf(raw, lastKey), self_tz, sysOffset, lastKey)

\* C6: with one or more day-keys, the parser binds the first day-key of the
\* mapping at construction, and the first and every later get_value call give
\* what the record list under that day-key gives; no other day is read.
C6_FirstDayOnly ==
    (pc = "constructed" /\ HasDay(raw))
    => /\ self_day_key = Str(Days(raw)[1].s)
       /\ self_metrics = FirstDayValue(raw)
       /\ lastKey # NoKey =>
             lastResult = get_value(FirstDayValue(raw), self_tz, sysOffset, lastKey)
       /\ firstKey # NoKey =>
             firstResult = get_value(FirstDayValue(raw), self_tz, sysOffset, firstKey)

\* C6 witness: two days, the later date first in the mapping; a second call
\* asked for steps and got the reading stored under the first day-key.
C6_Witness ==
    /\ HasDay(raw)
    /\ Len(Days(raw)) = 2
    /\ Days(raw)[1].s = Day2
    /\ DayHasRec(raw, "steps")
    /\ budget <= MaxCalls - 2
    /\ lastKey = "steps"
    /\ PathMember(raw, "steps") = <<lastResult>>
    /\ lastResult.k = "int"

\* the documented field path of `key` is populated in the first record of its
\* type: not null, and for a timestamp a non-zero instant
Populated(r, key) ==
    /\ DayHasRec(r, DocType(key))
    /\ PathMember(r, key) # <<>>
    /\ PathMember(r, key) # <<None>>
    /\ DocIsTimestamp(key) => BedtimeNonZero(r, key)

\* C7: the registry holds 22 keys, and for each of them a payload of one day
\* with a record of the documented type whose documented field path is
\* populated (time zone valid or absent) gives a value, not None and not an
\* error; for a key that is no timestamp, the stored value itself.
C7_RegistryInSync ==
    /\ Len(METRICS) = 22
    /\ Cardinality(RegistryKeys) = 22
    /\ (/\ lastKey \in RegistryKeys
        /\ ShapeOK(raw)
        /\ HasDay(raw)
        /\ Len(Days(raw)) = 1
        /\ TzValid(raw) \/ TzAbsent(raw)
        /\ Populated(raw, lastKey))
       => /\ lastResult # None
          /\ ~IsRaise(lastResult)
          /\ ~DocIsTimestamp(lastKey) => <<lastResult>> = PathMember(raw, lastKey)

\* C7 witness: the last key of the registry was asked for on a populated
\* body_battery record and its stored reading came back.
C7_Witness ==
    /\ lastKey = METRICS[Len(METRICS)]
    /\ ShapeOK(raw)
    /\ HasDay(raw)
    /\ Len(Days(raw)) = 1
    /\ Populated(raw, lastKey)
    /\ <<lastResult>> = PathMember(raw, lastKey)
    /\ lastResult.k = "int"

C9_NoHiddenState ==
    [][/\ pc = "constructed" =>
             /\ raw' = raw
             /\ self_tz' = self_tz
             /\ self_day_key' = self_day_key
             /\ self_metrics' = self_metrics
       /\ lastKey' = firstKey' => lastResult' = firstResult']_vars

\* C9 witness: sleep_start was asked first and asked again, and the same
\* rendering came back.
C9_Witness ==
    /\ pc = "constructed"
    /\ budget <= MaxCalls - 2
    /\ firstKey = "sleep_start"
    /\ lastKey = "sleep_start"
    /\ lastResult.k = "isostr"
    /\ lastResult = firstResult

\* C10: for every payload of the documented shape and each entry of SENSORS,
\* native_value gives the outcome UltrahumanDataParser(payload).get_value
\* gives on the corresponding key.
C10_PathsAgree ==
    (nvSensor # 0 /\ ShapeOK(raw))
    => nvResult = ParserOutcome(raw, sysOffset, SensorKey[nvSensor])

====
